---------------------------- MODULE Spec2Model ----------------------------
(***************************************************************************)
(* First-level GLM pipeline of code/glm: run matching (bin/run_match.py),  *)
(* design-matrix construction (bin/design_matrix.py) and model fitting     *)
(* with contrast resolution (bin/model_fit.py).                            *)
(*                                                                         *)
(* Text is modelled by what the code does with it: the run entity of a    *)
(* file name is the digit string matched by run-(\d+), int() parses it,    *)
(* and f"run-{run}" formats it back without leading zeros.  Trial-type     *)
(* labels are sequences of characters, so that substring search and the    *)
(* appended suffixes are computed.  Times are exact rationals <<num,den>>  *)
(* in seconds.                                                             *)
(***************************************************************************)
EXTENDS Integers, Sequences, FiniteSets, TLC

VARIABLES
    pc,            \* position of the program
    sub_imgs,      \* run_match.py:67   file names returned by _get_func_img()
    sub_events,    \* run_match.py:68   file names returned by _get_events_files()
    match_runs,    \* run_match.py:54   self.match_runs
    log,           \* logger.warning(...) records, in emission order
    raised,        \* the exception that ended the operation, or "none"
    specs,         \* model_fit.py:60   self.specs, the model specification
    model,         \* run.py:147  args.model / model_spec as supplied
    dm_columns,    \* model_fit.py:158  dm.columns of the run's design matrix
    contrasts,     \* model_fit.py:226  result of _get_run_level_contrasts
    prev_columns,  \* dm.columns of the previous build of the same design
    prev_contrasts,\* the contrasts resolved against prev_columns
    events_tsv,    \* design_matrix.py:99   rows of the run's events file
    events_df,     \* design_matrix.py:135  table returned by event loading
    sub_confounds, \* design_matrix.py:82   confounds files of the file index
    img,           \* design_matrix.py:141  the image file: format, volumes, TR
    confounds_tsv, \* design_matrix.py:179  rows of the run's confounds file
    cur,           \* model_fit.py:142  position of the loop in match_runs
    run,           \* model_fit.py:144  run label of the run being processed
    frame_times,   \* design_matrix.py:166  acquisition times of the kept scans
    non_steady_scans,     \* design_matrix.py:160  count used for the design
    confounds_df,  \* design_matrix.py:200  confounds rows kept
    dm_index,      \* design_matrix.py:206  rows of the design matrix
    new_cifti_img, \* model_fit.py:162  volumes of the image that is fitted
    fit_non_steady_scans, \* model_fit.py:162  count used for the fitted image
    ci,            \* model_fit.py:232  position of the loop in contrasts
    effect_maps,   \* model_fit.py:227  local list of effect-size map names
    files,         \* names of the files written under glm/sub-<ID>
    beta_maps,     \* run.py:87  value returned by process_and_fit_valid_run
    proc_sub,      \* run.py:188  the subject of each invocation
    proc_data,     \* the data set each invocation reads for its subject
    proc_pos,      \* number of files each invocation has written so far
    disk,          \* the files under glm/: path and what was last written
    drop_dummy_TRs \* run.py:138  args.drop_dummy_TRs, the --drop-dummy-TRs option

specVars == <<specs, model>>

matchVars == <<sub_imgs, sub_events, match_runs>>

contrastVars == <<dm_columns, contrasts, prev_columns, prev_contrasts>>

eventVars == <<events_tsv, events_df>>

\* the inputs of one run besides its events
dataVars == <<sub_confounds, img, confounds_tsv>>

\* locals of process_and_fit_valid_run and of the calls it makes
runVars == <<cur, run, frame_times, non_steady_scans, confounds_df, dm_index,
             new_cifti_img, fit_non_steady_scans, ci, effect_maps>>

outVars == <<files, beta_maps>>

pairVars == <<proc_sub, proc_data, proc_pos, disk>>

argVars == <<drop_dummy_TRs>>

vars == <<pc, log, raised, specVars, matchVars, contrastVars, eventVars,
          dataVars, runVars, outVars, pairVars, argVars>>

-----------------------------------------------------------------------------
(* Bounds of the model *)

\* largest number of files one lookup of the file index returns
MaxFiles == 4

\* run entities (the digits after "run-") of the file names of the data set;
\* <<>> is a file name without a run entity
RunTags == {<<>>, <<1>>, <<2>>, <<0, 1>>, <<1, 0>>, <<1, 2>>}

\* longest ConditionList of a contrast
MaxConds == 2

\* most rows of a contrast's weight matrix
MaxRows == 2

\* most contrasts of one node of the model specification
MaxContrasts == 3

\* regressor names, listed in the order Python compares the strings
ColumnNames == <<"constant", "rest", "task">>

\* the Level tags of the nodes of a model specification
LevelSeqs == {<<"Run">>, <<"Subject", "Run">>, <<"Run", "Dataset">>,
              <<"Dataset">>, <<"Run", "Run">>}

-----------------------------------------------------------------------------
(* Helpers on sequences *)

\* the value of raised: no exception, or an exception with its message and,
\* for the file count message, the number of files found
NoError == [exc |-> "none", msg |-> "", found |-> 0]

Error(exc, msg, found) == [exc |-> exc, msg |-> msg, found |-> found]

Range(s) == {s[i] : i \in 1..Len(s)}

SubsetsUpTo(S, n) == {T \in SUBSET S : Cardinality(T) <= n}

SeqsUpTo(S, n) == UNION {[1..k -> S] : k \in 0..n}

\* the orderings of the elements of a set
Orderings(S) ==
    {q \in [1..Cardinality(S) -> S] : \A x \in S : \E i \in DOMAIN q : q[i] = x}

RECURSIVE Flatten(_)
Flatten(ss) == IF Len(ss) = 0 THEN <<>> ELSE Head(ss) \o Flatten(Tail(ss))

-----------------------------------------------------------------------------
(* bin/run_match.py *)

\* f"ses-{self.session}": a text with one "-" is the pair of its parts
session == <<"ses", "01">>

\* text.split("-")[1]
SplitDash1(text) == text[2]

\* int(match.group(1)): decimal value of a digit string
RECURSIVE IntOf(_)
IntOf(ds) ==
    IF Len(ds) = 0 THEN 0
    ELSE 10 * IntOf(SubSeq(ds, 1, Len(ds) - 1)) + ds[Len(ds)]

\* the digits of f"run-{run}": decimal text of an int, no leading zeros
RECURSIVE RunLabel(_)
RunLabel(n) ==
    IF n < 10 THEN <<n>> ELSE Append(RunLabel(n \div 10), n % 10)

\* the loop over files: run_pattern.search(filename), add int(group(1))
RunsOf(names) == {IntOf(f) : f \in {g \in names : Len(g) > 0}}

\* text order of two digit strings (what sorting the labels would use)
RECURSIVE LabelLess(_, _)
LabelLess(a, b) ==
    IF Len(a) = 0 THEN Len(b) > 0
    ELSE IF Len(b) = 0 THEN FALSE
    ELSE IF a[1] # b[1] THEN a[1] < b[1]
    ELSE LabelLess(Tail(a), Tail(b))

RECURSIVE SortedByLabel(_)
SortedByLabel(S) ==
    IF S = {} THEN <<>>
    ELSE LET m == CHOOSE x \in S :
                    \A y \in S \ {x} : LabelLess(RunLabel(x), RunLabel(y))
         IN  <<m>> \o SortedByLabel(S \ {m})

\* sorted(matching_runs): ascending order of a set of ints
RECURSIVE Sorted(_)
Sorted(S) ==
    IF S = {} THEN <<>>
    ELSE LET m == CHOOSE x \in S : \A y \in S : x <= y
         IN  <<m>> \o Sorted(S \ {m})

\* [(session, f"run-{run}") for run in sorted(matching_runs)]
MatchList(runs) ==
    LET s == Sorted(runs)
    IN  [i \in 1..Len(s) |-> <<session, <<"run", RunLabel(s[i])>>>>]

\* the two warnings with their texts exchanged
MatchWarningsSwapped(img_runs, events_runs) ==
    (IF events_runs \ img_runs # {}
        THEN <<[msg |-> "missing task events files",
                runs |-> events_runs \ img_runs]>>
        ELSE <<>>)
    \o
    (IF img_runs \ events_runs # {}
        THEN <<[msg |-> "missing functional BOLD file",
                runs |-> img_runs \ events_runs]>>
        ELSE <<>>)

\* the two warnings of _find_matching_runs (verbose=True)
MatchWarnings(img_runs, events_runs) ==
    (IF events_runs \ img_runs # {}
        THEN <<[msg |-> "missing functional BOLD file",
                runs |-> events_runs \ img_runs]>>
        ELSE <<>>)
    \o
    (IF img_runs \ events_runs # {}
        THEN <<[msg |-> "missing task events files",
                runs |-> img_runs \ events_runs]>>
        ELSE <<>>)

-----------------------------------------------------------------------------
(* bin/design_matrix.py: _load_run_level_events *)

\* class attribute drop_duration, in seconds
drop_duration == 4

\* the onset shift of the n-back branch, in seconds
nbk_onset_shift == 8

\* the text "nbk"; a text is the sequence of its characters
NBK == <<"n", "b", "k">>

\* the text of another task
GNG == <<"g", "n", "g">>

\* model_spec["Input"]["task"][0]: the first element of a list, the first
\* character (a text of length one) of a string
Index0(task) ==
    IF task.type = "str" THEN SubSeq(task.value, 1, 1) ELSE task.value[1]

\* run.py get_single_value(specs["Input"]["task"], "task"): the task label
\* of the runs, for a one-element list and for a string
GetSingleValue(field) ==
    IF field.type = "str" THEN field.value ELSE field.value[1]

\* model_spec["Input"]["task"][0] == "nbk"
TaskIsNbk(task) == Index0(task) = NBK

\* the n-back branch on one row: "_hit" appended where correct_response and
\* participant_response are 1, then "_false" where they are 0 and 1, then
\* onset + 8
NbkHook(row) ==
    LET hit == [row EXCEPT !.trial_type =
                   IF row.correct_response = 1 /\ row.participant_response = 1
                   THEN row.trial_type \o <<"_", "h", "i", "t">>
                   ELSE row.trial_type]
        false == [hit EXCEPT !.trial_type =
                   IF hit.correct_response = 0 /\ hit.participant_response = 1
                   THEN hit.trial_type \o <<"_", "f", "a", "l", "s", "e">>
                   ELSE hit.trial_type]
    IN  [false EXCEPT !.onset = false.onset + nbk_onset_shift]

\* events_df[["onset", "duration", "trial_type"]] and onset - drop_duration;
\* index is the row label the data frame keeps
ReduceAndShift(row) ==
    [index |-> row.index, onset |-> row.onset - drop_duration,
     duration |-> row.duration, trial_type |-> row.trial_type]

\* "|".join(x_inputs)
RECURSIVE Join(_)
Join(xs) ==
    IF Len(xs) = 0 THEN <<>>
    ELSE IF Len(xs) = 1 THEN xs[1]
    ELSE xs[1] \o <<"|">> \o Join(Tail(xs))

\* the alternatives of a pattern of plain characters and "|"
RECURSIVE Alternatives(_)
Alternatives(pattern) ==
    IF \A i \in 1..Len(pattern) : pattern[i] # "|" THEN <<pattern>>
    ELSE LET bar == CHOOSE i \in 1..Len(pattern) :
                        /\ pattern[i] = "|"
                        /\ \A k \in 1..(i - 1) : pattern[k] # "|"
         IN  <<SubSeq(pattern, 1, bar - 1)>>
             \o Alternatives(SubSeq(pattern, bar + 1, Len(pattern)))

\* x occurs in text as a substring
Contains(text, x) ==
    \E i \in 0..(Len(text) - Len(x)) : SubSeq(text, i + 1, i + Len(x)) = x

\* Series.str.contains(pattern): a regular-expression search
StrContains(text, pattern) ==
    \E a \in Range(Alternatives(pattern)) : Contains(text, a)

\* mask = trial_type.str.contains("|".join(x_inputs)); events_df.loc[mask]
FilterByX(df, x_inputs) ==
    SelectSeq(df, LAMBDA row : StrContains(row.trial_type, Join(x_inputs)))

\* the loop over model_spec["Nodes"]: a Run node filters the table
RECURSIVE FilterByNodes(_, _)
FilterByNodes(df, nodes) ==
    IF Len(nodes) = 0 THEN df
    ELSE FilterByNodes(IF Head(nodes).Level = "Run"
                         THEN FilterByX(df, Head(nodes).Model.X) ELSE df,
                       Tail(nodes))

\* the loop over model_spec["Nodes"]: every other node logs the warning
RECURSIVE NodeWarnings(_)
NodeWarnings(nodes) ==
    IF Len(nodes) = 0 THEN <<>>
    ELSE (IF Head(nodes).Level = "Run" THEN <<>>
          ELSE <<[msg |-> "Run node is not identified in model specification",
                  runs |-> {}]>>)
         \o NodeWarnings(Tail(nodes))

\* FirstLevelDesignMatrix._load_run_level_events, up to the node loop
ShiftedEvents(events, model_spec) ==
    LET hooked == IF TaskIsNbk(model_spec.Input.task)
                  THEN [i \in 1..Len(events) |-> NbkHook(events[i])]
                  ELSE events
    IN  [i \in 1..Len(hooked) |-> ReduceAndShift(hooked[i])]

\* FirstLevelDesignMatrix._load_run_level_events
LoadRunLevelEventsDf(events, model_spec) ==
    FilterByNodes(ShiftedEvents(events, model_spec), model_spec.Nodes)

-----------------------------------------------------------------------------
(* bin/bids_util.py: LoadBidsModel *)

\* required_fields of _validate_input_field
RequiredFields == {"task", "session", "space", "dense"}

\* a specification as main hands it to the constructor: parsed, complete
ParsedModel == [form |-> "mapping", input_fields |-> RequiredFields]

\* missing = [field for field in required_fields if field not in input_field]
MissingFields(ms) == RequiredFields \ ms.input_fields

\* LoadBidsModel._ensure_model: only a string, the path of a file or JSON
\* text, is parsed and validated; anything else is returned as it is
EnsureModelRaises(ms) ==
    ms.form \in {"path", "text"} /\ MissingFields(ms) # {}

-----------------------------------------------------------------------------
(* bin/design_matrix.py: get_data_from_bids, drop_non_steady_scans,
   get_design_matrix *)

\* self.layout.get(..., run=run): the files whose run entity has the value
\* of run
LookupRun(names, run_label) ==
    {f \in names : Len(f) > 0 /\ IntOf(f) = IntOf(run_label)}

\* len(sub_run_imgs) + len(sub_run_events) + len(sub_run_confounds)
FilesFound(run_label) ==
    Cardinality(LookupRun(sub_imgs, run_label))
    + Cardinality(LookupRun(sub_events, run_label))
    + Cardinality(LookupRun(sub_confounds, run_label))

\* not sub_run_imgs or not sub_run_events or not sub_run_confounds
GetDataRaises(run_label) ==
    \/ LookupRun(sub_imgs, run_label) = {}
    \/ LookupRun(sub_events, run_label) = {}
    \/ LookupRun(sub_confounds, run_label) = {}

\* math.ceil(a / b) for positive integers a and b
CeilDiv(a, b) == (a + b - 1) \div b

\* the count that rounds down
NonSteadyScansFloor(t_r) == (drop_duration * t_r[2]) \div t_r[1]

\* non_steady_scans = math.ceil(self.drop_duration / t_r), t_r = <<num, den>>
NonSteadyScans(t_r) == CeilDiv(drop_duration * t_r[2], t_r[1])

\* data[n:]
DropLeading(rows, n) == SubSeq(rows, n + 1, Len(rows))

\* frame_times = np.arange(n_scans) * t_r
FrameTimes(n_scans, t_r) ==
    [i \in 1..n_scans |-> <<(i - 1) * t_r[1], t_r[2]>>]

\* FirstLevelDesignMatrix.drop_non_steady_scans for a CIFTI image
DropNonSteadyScans(image) ==
    LET nss == NonSteadyScans(image.t_r)
        new_cifti_data == DropLeading(image.vols, nss)
    IN  [new_cifti_img |-> new_cifti_data,
         frame_times |-> FrameTimes(Len(new_cifti_data), image.t_r),
         non_steady_scans |-> nss]

\* the image handed to the fit without the truncation
FitImageUntruncated(image) == image.vols

\* new_cifti_img, _, _ = dm_instance.drop_non_steady_scans(sub_run_imgs)
FitImage(image) == DropNonSteadyScans(image).new_cifti_img

\* dm.columns as make_first_level_design_matrix orders them: the condition
\* regressors of the run's events, then the constant of the drift model
RunDesignColumns == {<<"rest", "task", "constant">>, <<"task", "constant">>}

\* make_first_level_design_matrix refuses confounds whose row count is not
\* the number of frames, and a drift basis needs two frames
MakeDesignMatrixRaises(times, add_regs) ==
    Len(add_regs) # Len(times) \/ Len(times) < 2

-----------------------------------------------------------------------------
(* bin/model_fit.py: process_and_fit_valid_run, output names *)

\* self.participant_label
participant_label == "A01"

\* the name of an output file under glm/sub-<ID>: the fields the format
\* strings put between their fixed parts
FileName(prefix, run_label, contrast, stat, suffix) ==
    [prefix |-> prefix, sub |-> participant_label,
     ses |-> SplitDash1(session),
     task |-> GetSingleValue(specs.Input.task), run |-> run_label,
     contrast |-> contrast, stat |-> stat, suffix |-> suffix]

\* fname_dm and fname_dm_fig
DesignFiles(run_label) ==
    {FileName("sub-", run_label, "", "", "_design.tsv"),
     FileName("sub-", run_label, "", "", "_design.svg")}

\* modname_fmt(...) for the three entries of model_attr
ModelFiles(run_label) ==
    {FileName("sub-", run_label, "", attr, "_statmap.dscalar.nii") :
        attr \in {"r_square", "log_likelihood", "mean_square_error"}}

\* fname_contrast: the name starts with the participant label
ContrastPlotFile(run_label, c) ==
    FileName("", run_label, c.Name, c.Test, ".svg")

\* every map of a contrast named after the test
MapFileByTest(run_label, c, map_type) ==
    FileName("sub-", run_label, c.Name, c.Test, "_statmap.dscalar.nii")

\* fname_fmt(...): the "stat" map is named after the test, the others after
\* the map type
MapFile(run_label, c, map_type) ==
    FileName("sub-", run_label, c.Name,
             IF map_type = "stat" THEN c.Test ELSE map_type,
             "_statmap.dscalar.nii")

MapTypes == {"effect_size", "effect_variance", "z_score", "p_value", "stat"}

ContrastMapFiles(run_label, c) ==
    {MapFile(run_label, c, map_type) : map_type \in MapTypes}

\* str() of one decimal digit
DigitText(d) == <<"0", "1", "2", "3", "4", "5", "6", "7", "8", "9">>[d + 1]

\* the string of a text kept as a sequence of characters
RECURSIVE CharsText(_)
CharsText(cs) == IF Len(cs) = 0 THEN "" ELSE Head(cs) \o CharsText(Tail(cs))

\* the string of a run label kept as a sequence of digits
RECURSIVE DigitsText(_)
DigitsText(ds) ==
    IF Len(ds) = 0 THEN "" ELSE DigitText(Head(ds)) \o DigitsText(Tail(ds))

\* the file name the format strings produce from the fields
Render(f) ==
    f.prefix \o f.sub \o "_ses-" \o f.ses \o "_task-" \o CharsText(f.task)
    \o "_run-" \o DigitsText(f.run)
    \o (IF f.contrast = "" THEN "" ELSE "_contrast-" \o f.contrast)
    \o (IF f.stat = "" THEN "" ELSE "_stat-" \o f.stat)
    \o f.suffix

\* model_attr in insertion order
ModelAttrOrder == <<"r_square", "log_likelihood", "mean_square_error">>

\* the (map_type, map_list) pairs in loop order
MapTypeOrder ==
    <<"effect_size", "effect_variance", "z_score", "p_value", "stat">>

\* the files one pass of the run loop writes, in the order of the writes
RunWrites(run_label, cs) ==
    <<FileName("sub-", run_label, "", "", "_design.tsv"),
      FileName("sub-", run_label, "", "", "_design.svg")>>
    \o [a \in 1..Len(ModelAttrOrder) |->
          FileName("sub-", run_label, "", ModelAttrOrder[a],
                   "_statmap.dscalar.nii")]
    \o Flatten([i \in 1..Len(cs) |->
          <<ContrastPlotFile(run_label, cs[i])>>
          \o [m \in 1..Len(MapTypeOrder) |->
                MapFile(run_label, cs[i], MapTypeOrder[m])]])

\* every invocation writes under the same directory, whatever its subject
OutputPathShared(sub, f) == "glm/" \o Render(f)

\* glm_dir / name for the invocation of subject sub:
\* outdir / "glm" / f"sub-{self.participant_label}" and the file name with
\* the participant label in it
OutputPath(sub, f) ==
    "glm/sub-" \o sub \o "/" \o Render([f EXCEPT !.sub = sub])

\* what a written file holds that depends on which invocation wrote it
ContentStamped(p, sub, dataset, f) ==
    [of |-> <<sub, dataset>>, kind |-> <<f.contrast, f.stat, f.suffix>>,
     writer |-> p]

\* what a written file holds: the table or map computed from the subject's
\* data for this output; nothing of the invocation itself enters it
Content(p, sub, dataset, f) ==
    [of |-> <<sub, dataset>>, kind |-> <<f.contrast, f.stat, f.suffix>>,
     writer |-> 0]

\* to_csv / to_filename / output_file=: the file is created or replaced
WriteFile(d, path, content) ==
    {e \in d : e.path # path} \cup {[path |-> path, content |-> content]}

\* compute_contrast accepts the statistic types "t" and "F"
ComputeContrastRaises(c) == c.Test \notin {"t", "F"}

-----------------------------------------------------------------------------
(* bin/model_fit.py: _get_run_level_contrasts *)

\* position of a name in Python's string order
Rank(name) == CHOOSE i \in 1..Len(ColumnNames) : ColumnNames[i] = name

\* np.atleast_2d(contrast_info["Weights"]): a flat list becomes one row
AtLeast2d(w) == IF w.ndim = 1 THEN <<w.data>> ELSE w.data

\* in_weights.shape[0] and in_weights.shape[1]
NRows(W) == Len(W)
NCols(W) == IF Len(W) = 0 THEN 0 ELSE Len(W[1])

\* the sorter that ignores the names (a design matrix assumed sorted)
ArgSortIdentity(cols) == [i \in 1..Len(cols) |-> i]

\* np.argsort(dm.columns): the positions of the columns, in ascending order
\* of their names
ArgSort(cols) ==
    IF Len(cols) = 0 THEN <<>>
    ELSE CHOOSE q \in Orderings(1..Len(cols)) :
            \A i, j \in 1..Len(cols) :
                i < j => Rank(cols[q[i]]) <= Rank(cols[q[j]])

\* np.searchsorted(dm.columns, cond, sorter=sorter), side="left": the
\* insertion point of cond, the number of names sorted before it, plus one
SearchSorted(cols, cond, sorter) ==
    1 + Cardinality({i \in 1..Len(sorter) : Rank(cols[sorter[i]]) < Rank(cond)})

\* weights placed by the position of the condition in ConditionList
PositionalIndices(cols, conds) ==
    [j \in 1..Len(conds) |-> IF j <= Len(cols) THEN j ELSE 0]

\* sorter[np.searchsorted(dm.columns, conds, sorter=sorter)]: the column
\* index found for each condition; 0 stands for an index out of bounds
ColumnIndices(cols, conds) ==
    LET sorter == ArgSort(cols)
    IN  [j \in 1..Len(conds) |->
            LET at == SearchSorted(cols, conds[j], sorter)
            IN  IF at <= Len(sorter) THEN sorter[at] ELSE 0]

\* weights = np.zeros(...); weights[:, indices] = in_weights.  A column
\* index that occurs more than once keeps the value assigned last.
ResolveWeights(cols, conds, W) ==
    LET indices == ColumnIndices(cols, conds)
    IN  [r \in 1..NRows(W) |->
            [c \in 1..Len(cols) |->
                LET js == {j \in 1..Len(conds) : indices[j] = c}
                IN  IF js = {} THEN 0
                    ELSE W[r][CHOOSE j \in js : \A k \in js : k <= j]]]

\* sorter[...] with an insertion point past the last column: IndexError
ResolveRaises(cols, conds) ==
    \E j \in 1..Len(conds) : ColumnIndices(cols, conds)[j] = 0

\* the test that only compares the lengths
MissingByLength(cols, contrast_info) ==
    Len(contrast_info.ConditionList) # NCols(AtLeast2d(contrast_info.Weights))

\* missing = len(conds) != in_weights.shape[1] or any(cond not in dm.columns)
Missing(cols, contrast_info) ==
    \/ Len(contrast_info.ConditionList) # NCols(AtLeast2d(contrast_info.Weights))
    \/ \E j \in 1..Len(contrast_info.ConditionList) :
          contrast_info.ConditionList[j] \notin Range(cols)

\* the loop over node["Contrasts"]: skip the missing ones, append the rest
RECURSIVE NodeContrasts(_, _)
NodeContrasts(cols, cs) ==
    IF Len(cs) = 0 THEN <<>>
    ELSE IF Missing(cols, Head(cs)) THEN NodeContrasts(cols, Tail(cs))
    ELSE <<[Name |-> Head(cs).Name,
            weights |-> ResolveWeights(cols, Head(cs).ConditionList,
                                       AtLeast2d(Head(cs).Weights)),
            Test |-> Head(cs).Test]>>
         \o NodeContrasts(cols, Tail(cs))

\* the loop over model_spec["Nodes"]: only the nodes of Level "Run"
RECURSIVE RunLevelContrasts(_, _)
RunLevelContrasts(cols, nodes) ==
    IF Len(nodes) = 0 THEN <<>>
    ELSE (IF Head(nodes).Level = "Run"
            THEN NodeContrasts(cols, Head(nodes).Contrasts)
            ELSE <<>>)
         \o RunLevelContrasts(cols, Tail(nodes))

\* whether the loops end in an IndexError: some contrast that is not skipped
\* has a condition with no column index
RunLevelRaises(cols, nodes) ==
    \E n \in 1..Len(nodes) :
        /\ nodes[n].Level = "Run"
        /\ \E k \in 1..Len(nodes[n].Contrasts) :
              /\ ~Missing(cols, nodes[n].Contrasts[k])
              /\ ResolveRaises(cols, nodes[n].Contrasts[k].ConditionList)

-----------------------------------------------------------------------------
(* Values of the variables an operation does not use *)

IdleMatch ==
    /\ sub_imgs = {}
    /\ sub_events = {}
    /\ match_runs = <<>>

IdleSpecs ==
    specs = [Input |-> [task |-> [type |-> "list", value |-> <<NBK>>]],
             Nodes |-> <<>>]

IdleModel == model = ParsedModel

IdleEvents ==
    /\ events_tsv = <<>>
    /\ events_df = <<>>

IdleData ==
    /\ sub_confounds = {}
    /\ img = [is_cifti |-> TRUE, vols |-> <<>>, t_r |-> <<2, 1>>]
    /\ confounds_tsv = <<>>

IdleRun ==
    /\ cur = 0
    /\ run = <<>>
    /\ frame_times = <<>>
    /\ non_steady_scans = 0
    /\ confounds_df = <<>>
    /\ dm_index = <<>>
    /\ new_cifti_img = <<>>
    /\ fit_non_steady_scans = 0
    /\ ci = 0
    /\ effect_maps = [bound |-> FALSE, list |-> <<>>]

IdleOut ==
    /\ files = {}
    /\ beta_maps = <<>>

\* argparse default of an option that is not given
None == [given |-> FALSE, n |-> 0]

IdleArgs == drop_dummy_TRs = None

IdlePair ==
    /\ proc_sub = <<>>
    /\ proc_data = <<>>
    /\ proc_pos = <<>>
    /\ disk = {}

IdleContrast ==
    /\ dm_columns = <<>>
    /\ contrasts = <<>>
    /\ prev_columns = <<>>
    /\ prev_contrasts = <<>>

-----------------------------------------------------------------------------
(* Operations *)

\* run matching without the two checks for an empty lookup
FindMatchingRunsUnchecked ==
    /\ pc = "match"
    /\ match_runs' = MatchList(RunsOf(sub_imgs) \cap RunsOf(sub_events))
    /\ log' = log \o MatchWarnings(RunsOf(sub_imgs), RunsOf(sub_events))
    /\ pc' = "matched"
    /\ UNCHANGED <<raised, sub_imgs, sub_events>>
    /\ UNCHANGED <<specVars, contrastVars, eventVars, dataVars, pairVars, argVars, runVars, outVars>>

\* BoldEventsMatch._find_matching_runs
FindMatchingRuns ==
    /\ pc = "match"
    /\ \/ /\ sub_imgs = {}
          /\ raised' = Error("ValueError", "No functional images found", 0)
          /\ pc' = "match_raised"
          /\ UNCHANGED <<match_runs, log>>
       \/ /\ sub_imgs # {}
          /\ sub_events = {}
          /\ raised' = Error("ValueError", "No task events found", 0)
          /\ pc' = "match_raised"
          /\ UNCHANGED <<match_runs, log>>
       \/ /\ sub_imgs # {}
          /\ sub_events # {}
          /\ LET img_runs == RunsOf(sub_imgs)
                 events_runs == RunsOf(sub_events)
                 matching_runs == img_runs \cap events_runs
             IN  /\ match_runs' = MatchList(matching_runs)
                 /\ log' = log \o MatchWarnings(img_runs, events_runs)
          /\ pc' = "matched"
          /\ UNCHANGED raised
    /\ UNCHANGED <<sub_imgs, sub_events>>
    /\ UNCHANGED <<specVars, contrastVars, eventVars, dataVars, pairVars, argVars, runVars, outVars>>

\* FirstLevelModelFit._get_run_level_contrasts(dm, self.specs)
GetRunLevelContrasts ==
    /\ pc = "contrasts"
    /\ \/ /\ RunLevelRaises(dm_columns, specs.Nodes)
          /\ raised' = Error("IndexError", "index out of bounds", 0)
          /\ pc' = "contrasts_raised"
          /\ UNCHANGED contrasts
       \/ /\ ~RunLevelRaises(dm_columns, specs.Nodes)
          /\ contrasts' = RunLevelContrasts(dm_columns, specs.Nodes)
          /\ pc' = "resolved"
          /\ UNCHANGED raised
    /\ UNCHANGED <<specVars, dm_columns, prev_columns, prev_contrasts>>
    /\ UNCHANGED <<log, matchVars, eventVars, dataVars, pairVars, argVars, runVars, outVars>>

\* get_design_matrix builds the design matrix of the same run again: same
\* regressors, column order not guaranteed to be the same
RebuildDesignMatrix ==
    /\ pc = "resolved"
    /\ prev_columns = <<>>
    /\ prev_columns' = dm_columns
    /\ prev_contrasts' = contrasts
    /\ dm_columns' \in Orderings(Range(dm_columns))
    /\ contrasts' = <<>>
    /\ pc' = "contrasts"
    /\ UNCHANGED <<specVars, log, raised, matchVars, eventVars>>
    /\ UNCHANGED <<dataVars, pairVars, argVars, runVars, outVars>>

\* FirstLevelDesignMatrix._load_run_level_events(sub_run_events, model_spec)
LoadRunLevelEvents ==
    /\ pc = "events"
    /\ events_df' = LoadRunLevelEventsDf(events_tsv, specs)
    /\ log' = log \o NodeWarnings(specs.Nodes)
    /\ pc' = "events_loaded"
    /\ UNCHANGED <<events_tsv, specVars, raised, matchVars, contrastVars>>
    /\ UNCHANGED <<dataVars, pairVars, argVars, runVars, outVars>>

\* run.py main: specs = LoadBidsModel(model).specs, then the task, space
\* and dense labels are read from specs["Input"] and the constructor is
\* called with the parsed specification
MainLoadModel ==
    /\ pc = "main"
    /\ \/ /\ EnsureModelRaises(model)
          /\ raised' = Error("ValueError", "Missing required Input fields", 0)
          /\ pc' = "config_raised"
          /\ UNCHANGED model
       \/ /\ ~EnsureModelRaises(model)
          /\ model' = [model EXCEPT !.form = "mapping"]
          /\ pc' = "match"
          /\ UNCHANGED raised
    /\ UNCHANGED <<specs, log, matchVars, contrastVars, eventVars>>
    /\ UNCHANGED <<dataVars, pairVars, argVars, runVars, outVars>>

\* FirstLevelModelFit.__init__ after super().__init__() has matched the
\* runs: self.specs = LoadBidsModel(model_spec)._ensure_model()
EnsureModel ==
    /\ pc = "matched"
    /\ \/ /\ EnsureModelRaises(model)
          /\ raised' = Error("ValueError", "Missing required Input fields", 0)
          /\ pc' = "config_raised"
       \/ /\ ~EnsureModelRaises(model)
          /\ pc' = "constructed"
          /\ UNCHANGED raised
    /\ UNCHANGED <<specVars, log, matchVars, contrastVars, eventVars>>
    /\ UNCHANGED <<dataVars, pairVars, argVars, runVars, outVars>>

\* run.py model_fit: fit = FirstLevelModelFit(...) is constructed,
\* beta_maps = fit.process_and_fit_valid_run() is entered
StartProcessing ==
    /\ pc = "constructed"
    /\ cur' = 0
    /\ pc' = "loop"
    /\ UNCHANGED <<run, frame_times, non_steady_scans, confounds_df, dm_index,
                   new_cifti_img, fit_non_steady_scans, ci, effect_maps>>
    /\ UNCHANGED <<specVars, log, raised, matchVars, contrastVars, eventVars>>
    /\ UNCHANGED <<dataVars, pairVars, argVars, outVars>>

\* for ses, run in self._iter_valid_runs(): run = run.split("-")[1]
NextRun ==
    /\ pc = "loop"
    /\ cur < Len(match_runs)
    /\ cur' = cur + 1
    /\ run' = SplitDash1(match_runs[cur + 1][2])
    /\ pc' = "design"
    /\ UNCHANGED <<frame_times, non_steady_scans, confounds_df, dm_index,
                   new_cifti_img, fit_non_steady_scans, ci, effect_maps>>
    /\ UNCHANGED <<specVars, log, raised, matchVars, contrastVars, eventVars>>
    /\ UNCHANGED <<dataVars, pairVars, argVars, outVars>>

\* dm = dm_instance.get_design_matrix(run, self.specs); nothing catches what
\* it raises
GetDesignMatrix ==
    /\ pc = "design"
    /\ \/ /\ GetDataRaises(run)
          /\ raised' = Error("ValueError", "Expected 3 files", FilesFound(run))
          /\ pc' = "raised"
          /\ UNCHANGED <<events_df, log, frame_times, non_steady_scans,
                         confounds_df, dm_columns, dm_index>>
       \/ /\ ~GetDataRaises(run)
          /\ "task" \notin model.input_fields
          /\ raised' = Error("KeyError", "task", 0)
          /\ pc' = "raised"
          /\ UNCHANGED <<events_df, log, frame_times, non_steady_scans,
                         confounds_df, dm_columns, dm_index>>
       \/ /\ ~GetDataRaises(run)
          /\ "task" \in model.input_fields
          /\ events_df' = LoadRunLevelEventsDf(events_tsv, specs)
          /\ log' = log \o NodeWarnings(specs.Nodes)
          /\ \/ /\ ~img.is_cifti
                /\ raised' = Error("ValueError", "Expected CIFTI file", 0)
                /\ pc' = "raised"
                /\ UNCHANGED <<frame_times, non_steady_scans, confounds_df,
                               dm_columns, dm_index>>
             \/ /\ img.is_cifti
                /\ frame_times' = DropNonSteadyScans(img).frame_times
                /\ non_steady_scans' = DropNonSteadyScans(img).non_steady_scans
                /\ confounds_df' = DropLeading(confounds_tsv,
                                               non_steady_scans')
                /\ \/ /\ MakeDesignMatrixRaises(frame_times', confounds_df')
                      /\ raised' = Error("ValueError",
                                         "Incorrect design specification", 0)
                      /\ pc' = "raised"
                      /\ UNCHANGED <<dm_columns, dm_index>>
                   \/ /\ ~MakeDesignMatrixRaises(frame_times', confounds_df')
                      /\ dm_columns' \in RunDesignColumns
                      /\ dm_index' = frame_times'
                      /\ pc' = "fit_data"
                      /\ UNCHANGED raised
    /\ UNCHANGED <<cur, run, new_cifti_img, fit_non_steady_scans, ci,
                   effect_maps>>
    /\ UNCHANGED <<contrasts, prev_columns, prev_contrasts, events_tsv>>
    /\ UNCHANGED <<specVars, matchVars, dataVars, pairVars, argVars, outVars>>

\* sub_run_imgs, _, _ = dm_instance.get_data_from_bids(run);
\* new_cifti_img, _, _ = dm_instance.drop_non_steady_scans(sub_run_imgs)
FitData ==
    /\ pc = "fit_data"
    /\ new_cifti_img' = FitImage(img)
    /\ fit_non_steady_scans' = DropNonSteadyScans(img).non_steady_scans
    /\ pc' = "glm"
    /\ UNCHANGED <<cur, run, frame_times, non_steady_scans, confounds_df,
                   dm_index, ci, effect_maps>>
    /\ UNCHANGED <<specVars, log, raised, matchVars, contrastVars, eventVars>>
    /\ UNCHANGED <<dataVars, pairVars, argVars, outVars>>

\* labels, estimates = level1.run_glm(new_cifti_img.get_fdata(), dm.values):
\* the rows of the data and of the design must agree
RunGlm ==
    /\ pc = "glm"
    /\ \/ /\ Len(new_cifti_img) # Len(dm_index)
          /\ raised' = Error("ValueError", "rows of Y and X differ", 0)
          /\ pc' = "raised"
       \/ /\ Len(new_cifti_img) = Len(dm_index)
          /\ pc' = "save_design"
          /\ UNCHANGED raised
    /\ UNCHANGED <<specVars, log, matchVars, contrastVars, eventVars>>
    /\ UNCHANGED <<dataVars, pairVars, argVars, runVars, outVars>>

\* dm.to_csv(fname_dm, index=False); plot_design_matrix(dm, fname_dm_fig)
SaveDesign ==
    /\ pc = "save_design"
    /\ files' = files \cup DesignFiles(run)
    /\ pc' = "save_model"
    /\ UNCHANGED <<beta_maps, specVars, log, raised, matchVars, contrastVars>>
    /\ UNCHANGED <<eventVars, dataVars, pairVars, argVars, runVars>>

\* for attr, img in model_attr.items(): img.to_filename(fname)
SaveModel ==
    /\ pc = "save_model"
    /\ files' = files \cup ModelFiles(run)
    /\ pc' = "resolve"
    /\ UNCHANGED <<beta_maps, specVars, log, raised, matchVars, contrastVars>>
    /\ UNCHANGED <<eventVars, dataVars, pairVars, argVars, runVars>>

\* contrasts = self._get_run_level_contrasts(dm, self.specs);
\* effect_maps = []
ResolveContrasts ==
    /\ pc = "resolve"
    /\ \/ /\ RunLevelRaises(dm_columns, specs.Nodes)
          /\ raised' = Error("IndexError", "index out of bounds", 0)
          /\ pc' = "raised"
          /\ UNCHANGED <<contrasts, effect_maps, ci>>
       \/ /\ ~RunLevelRaises(dm_columns, specs.Nodes)
          /\ contrasts' = RunLevelContrasts(dm_columns, specs.Nodes)
          /\ effect_maps' = [bound |-> TRUE, list |-> <<>>]
          /\ ci' = 0
          /\ pc' = "contrast_loop"
          /\ UNCHANGED raised
    /\ UNCHANGED <<cur, run, frame_times, non_steady_scans, confounds_df,
                   dm_index, new_cifti_img, fit_non_steady_scans>>
    /\ UNCHANGED <<dm_columns, prev_columns, prev_contrasts>>
    /\ UNCHANGED <<specVars, log, matchVars, eventVars, dataVars, pairVars, argVars, outVars>>

\* for name, weights, contrast_test in contrasts:
\* plot_contrast_matrix(weights, dm, output_file=fname_contrast)
PlotContrast ==
    /\ pc = "contrast_loop"
    /\ ci < Len(contrasts)
    /\ ci' = ci + 1
    /\ files' = files \cup {ContrastPlotFile(run, contrasts[ci + 1])}
    /\ pc' = "compute"
    /\ UNCHANGED <<cur, run, frame_times, non_steady_scans, confounds_df,
                   dm_index, new_cifti_img, fit_non_steady_scans, effect_maps>>
    /\ UNCHANGED <<beta_maps, specVars, log, raised, matchVars, contrastVars>>
    /\ UNCHANGED <<eventVars, dataVars, pairVars, argVars>>

\* contrast = compute_contrast(labels, estimates, weights,
\*                             stat_type=contrast_test)
ComputeContrast ==
    /\ pc = "compute"
    /\ \/ /\ ComputeContrastRaises(contrasts[ci])
          /\ raised' = Error("ValueError", "Unknown statistic type", 0)
          /\ pc' = "raised"
       \/ /\ ~ComputeContrastRaises(contrasts[ci])
          /\ pc' = "save_maps"
          /\ UNCHANGED raised
    /\ UNCHANGED <<specVars, log, matchVars, contrastVars, eventVars>>
    /\ UNCHANGED <<dataVars, pairVars, argVars, runVars, outVars>>

\* for map_type, map_list in (...): map_list.append(fname);
\* maps[map_type].to_filename(fname)
SaveMaps ==
    /\ pc = "save_maps"
    /\ files' = files \cup ContrastMapFiles(run, contrasts[ci])
    /\ effect_maps' =
          [effect_maps EXCEPT !.list =
              Append(@, MapFile(run, contrasts[ci], "effect_size"))]
    /\ pc' = "contrast_loop"
    /\ UNCHANGED <<cur, run, frame_times, non_steady_scans, confounds_df,
                   dm_index, new_cifti_img, fit_non_steady_scans, ci>>
    /\ UNCHANGED <<beta_maps, specVars, log, raised, matchVars, contrastVars>>
    /\ UNCHANGED <<eventVars, dataVars, pairVars, argVars>>

\* the loop over contrasts is exhausted: back to the loop over the runs
EndRun ==
    /\ pc = "contrast_loop"
    /\ ci = Len(contrasts)
    /\ pc' = "loop"
    /\ UNCHANGED <<specVars, log, raised, matchVars, contrastVars, eventVars>>
    /\ UNCHANGED <<dataVars, pairVars, argVars, runVars, outVars>>

\* return effect_maps: the name is bound only by a pass of the loop
Return ==
    /\ pc = "loop"
    /\ cur = Len(match_runs)
    /\ \/ /\ ~effect_maps.bound
          /\ raised' = Error("UnboundLocalError", "effect_maps", 0)
          /\ pc' = "raised"
          /\ UNCHANGED beta_maps
       \/ /\ effect_maps.bound
          /\ beta_maps' = effect_maps.list
          /\ pc' = "returned"
          /\ UNCHANGED raised
    /\ UNCHANGED <<files, specVars, log, matchVars, contrastVars, eventVars>>
    /\ UNCHANGED <<dataVars, pairVars, argVars, runVars>>

\* outname = map.replace("dscalar.nii", "png")
PngName(f) == [f EXCEPT !.suffix = "_statmap.png"]

\* run.py model_fit after the call: a plot for every returned beta map, or
\* the warning when the returned list is empty
PlotBetaMaps ==
    /\ pc = "returned"
    /\ \/ /\ beta_maps # <<>>
          /\ files' = files \cup {PngName(beta_maps[i]) :
                                     i \in 1..Len(beta_maps)}
          /\ UNCHANGED log
       \/ /\ beta_maps = <<>>
          /\ log' = log \o <<[msg |-> "No beta maps found", runs |-> {}]>>
          /\ UNCHANGED files
    /\ pc' = "done"
    /\ UNCHANGED <<beta_maps, raised, specVars, matchVars, contrastVars>>
    /\ UNCHANGED <<eventVars, dataVars, pairVars, argVars, runVars>>

\* the writes of invocation p so far: one complete run, the retained
\* contrasts of PairSpecs
PairWrites == RunWrites(<<1>>, RunLevelContrasts(<<"task", "constant">>,
                                                 specs.Nodes))

\* the next file write of invocation p (dm.to_csv, plot_design_matrix,
\* img.to_filename, plot_contrast_matrix, maps[map_type].to_filename)
WriteNext(p) ==
    /\ pc = "pair"
    /\ proc_pos[p] < Len(PairWrites)
    /\ LET f == PairWrites[proc_pos[p] + 1]
       IN  disk' = WriteFile(disk, OutputPath(proc_sub[p], f),
                             Content(p, proc_sub[p], proc_data[p], f))
    /\ proc_pos' = [proc_pos EXCEPT ![p] = @ + 1]
    /\ UNCHANGED <<pc, proc_sub, proc_data, log, raised, specVars>>
    /\ UNCHANGED <<matchVars, contrastVars, eventVars, dataVars>>
    /\ UNCHANGED <<runVars, outVars, argVars>>

-----------------------------------------------------------------------------
(* Specification of run matching: every data set of at most MaxFiles images
   and MaxFiles event files, then one call of _find_matching_runs *)

InitMatch ==
    /\ IdleArgs
    /\ IdlePair
    /\ IdleModel
    /\ pc = "match"
    /\ sub_imgs \in SubsetsUpTo(RunTags, MaxFiles)
    /\ sub_events \in SubsetsUpTo(RunTags, MaxFiles)
    /\ match_runs = <<>>
    /\ log = <<>>
    /\ raised = NoError
    /\ IdleSpecs
    /\ IdleContrast
    /\ IdleEvents
    /\ IdleData
    /\ IdleRun
    /\ IdleOut

NextMatch == FindMatchingRuns

SpecMatch == InitMatch /\ [][NextMatch]_vars

-----------------------------------------------------------------------------
(* Specification of contrast resolution: a design matrix, a model
   specification, one call of _get_run_level_contrasts, then the same design
   with its columns in another order and a second call *)

\* Input section of the model specification when the operation ignores it
DefaultInput == [task |-> [type |-> "list", value |-> <<NBK>>]]

\* columns of a design matrix: the constant term of the drift model and any
\* of the other regressors, in any order, names unique
DesignColumns ==
    UNION {Orderings({"constant"} \cup S) : S \in SUBSET {"rest", "task"}}

\* weight values: "index" makes every entry different, "sign" gives the
\* usual +r / -r pattern
WeightRow(family, r, n) ==
    [j \in 1..n |-> IF family = "index" THEN 10 * r + j
                    ELSE IF j % 2 = 1 THEN r ELSE 0 - r]

\* the "Weights" entry as written in the JSON file: a flat list or a list of
\* rows
WeightInputs ==
    {[ndim |-> 2, data |-> [r \in 1..k |-> WeightRow(f, r, n)]] :
        f \in {"index", "sign"}, k \in 1..MaxRows, n \in 0..MaxConds}
    \cup
    {[ndim |-> 1, data |-> WeightRow(f, 1, n)] :
        f \in {"index", "sign"}, n \in 0..MaxConds}

\* one contrast with any condition list and any weights
ProbeContrasts ==
    {[Name |-> "probe", ConditionList |-> c, Weights |-> w, Test |-> "t"] :
        c \in SeqsUpTo(Range(ColumnNames), MaxConds), w \in WeightInputs}

\* the contrasts of the lists: resolvable ones, one whose weights have the
\* wrong length, and (when the design lacks "rest") one with an absent
\* condition
NamedContrasts ==
    {[Name |-> "taskVsRest", ConditionList |-> <<"task", "rest">>,
      Weights |-> [ndim |-> 2, data |-> <<<<1, -1>>>>], Test |-> "t"],
     [Name |-> "task", ConditionList |-> <<"task">>,
      Weights |-> [ndim |-> 1, data |-> <<1>>], Test |-> "t"],
     [Name |-> "badLen", ConditionList |-> <<"task">>,
      Weights |-> [ndim |-> 2, data |-> <<<<1, -1>>>>], Test |-> "t"],
     [Name |-> "any", ConditionList |-> <<"rest", "task">>,
      Weights |-> [ndim |-> 2, data |-> <<<<1, 0>>, <<0, 1>>>>], Test |-> "F"]}

Node(level, cs) == [Level |-> level, Model |-> [X |-> <<>>], Contrasts |-> cs]

ContrastSpecs ==
    {[Input |-> DefaultInput, Nodes |-> <<Node("Run", <<c>>)>>] :
        c \in ProbeContrasts}
    \cup
    {[Input |-> DefaultInput,
      Nodes |-> [i \in 1..Len(levels) |-> Node(levels[i], cs)]] :
        levels \in LevelSeqs, cs \in SeqsUpTo(NamedContrasts, MaxContrasts)}

InitContrast ==
    /\ IdleArgs
    /\ IdlePair
    /\ IdleModel
    /\ pc = "contrasts"
    /\ specs \in ContrastSpecs
    /\ dm_columns \in DesignColumns
    /\ contrasts = <<>>
    /\ prev_columns = <<>>
    /\ prev_contrasts = <<>>
    /\ log = <<>>
    /\ raised = NoError
    /\ IdleMatch
    /\ IdleEvents
    /\ IdleData
    /\ IdleRun
    /\ IdleOut

NextContrast == GetRunLevelContrasts \/ RebuildDesignMatrix

SpecContrast == InitContrast /\ [][NextContrast]_vars

-----------------------------------------------------------------------------
(* Specification of event loading: an events file, a model specification,
   one call of _load_run_level_events *)

\* most rows of an events file
MaxEvents == 2

\* most entries of Model.X
MaxX == 2

\* rows of an events file; index is the row label of the data frame
EventRows ==
    {[onset |-> o, duration |-> 2, trial_type |-> t,
      correct_response |-> cr[1], participant_response |-> cr[2]] :
        o \in {0, 10}, t \in {<<"a">>, <<"b">>},
        cr \in {<<1, 1>>, <<0, 1>>, <<1, 0>>}}

EventTables ==
    {[i \in 1..Len(rows) |->
        [index |-> i, onset |-> rows[i].onset, duration |-> rows[i].duration,
         trial_type |-> rows[i].trial_type,
         correct_response |-> rows[i].correct_response,
         participant_response |-> rows[i].participant_response]] :
        rows \in SeqsUpTo(EventRows, MaxEvents)}

\* the two ways Input.task may be written, for two tasks
TaskInputs ==
    {[type |-> "list", value |-> <<NBK>>], [type |-> "str", value |-> NBK],
     [type |-> "list", value |-> <<GNG>>]}

\* entries of Model.X
XStrings == {<<"a">>, <<"_", "h">>}

EventSpecs ==
    {[Input |-> [task |-> task],
      Nodes |-> [i \in 1..Len(levels) |->
                    [Level |-> levels[i], Model |-> [X |-> x],
                     Contrasts |-> <<>>]]] :
        task \in TaskInputs, x \in SeqsUpTo(XStrings, MaxX),
        levels \in {<<"Run">>, <<"Dataset", "Run">>, <<"Dataset">>}}

InitEvents ==
    /\ IdleArgs
    /\ IdlePair
    /\ IdleModel
    /\ pc = "events"
    /\ specs \in EventSpecs
    /\ events_tsv \in EventTables
    /\ events_df = <<>>
    /\ log = <<>>
    /\ raised = NoError
    /\ IdleMatch
    /\ IdleContrast
    /\ IdleData
    /\ IdleRun
    /\ IdleOut

NextEvents == LoadRunLevelEvents

SpecEvents == InitEvents /\ [][NextEvents]_vars

-----------------------------------------------------------------------------
(* Specification of the pipeline: a file index, the content of the files
   of a run, a model specification; the runs are matched and
   process_and_fit_valid_run works through them *)

\* most volumes of an image and most rows of a confounds file
MaxVols == 5

\* most contrasts of the Run node
MaxRunContrasts == 2

\* run entities of the files of the index; "1" and "01" are two files of
\* the same run
IndexTags == {<<1>>, <<0, 1>>, <<2>>}

\* RepetitionTime in seconds, as <<numerator, denominator>>
TRValues == {<<4, 5>>, <<1, 1>>, <<3, 2>>, <<2, 1>>, <<3, 1>>, <<4, 1>>,
             <<9, 2>>}

\* an image file of four-second volumes that nibabel loads as CIFTI-2
GoodImage == [is_cifti |-> TRUE, vols |-> <<1, 2, 3, 4>>, t_r |-> <<2, 1>>]

\* the rows of a file numbered from 1
Rows(n) == [i \in 1..n |-> i]

Images ==
    {[is_cifti |-> b, vols |-> Rows(n), t_r |-> t] :
        b \in BOOLEAN, n \in 0..MaxVols, t \in TRValues}

\* the events file of every run
RunEvents ==
    <<[index |-> 1, onset |-> 10, duration |-> 2, trial_type |-> <<"a">>,
       correct_response |-> 1, participant_response |-> 1]>>

\* contrasts of the Run node: two t tests and one whose Test is "skip"
RunContrasts ==
    {[Name |-> "task", ConditionList |-> <<"task">>,
      Weights |-> [ndim |-> 1, data |-> <<1>>], Test |-> "t"],
     [Name |-> "taskVsRest", ConditionList |-> <<"task", "rest">>,
      Weights |-> [ndim |-> 2, data |-> <<<<1, -1>>>>], Test |-> "t"],
     [Name |-> "rest", ConditionList |-> <<"rest">>,
      Weights |-> [ndim |-> 1, data |-> <<1>>], Test |-> "skip"]}

RunSpecs ==
    {[Input |-> [task |-> [type |-> "list", value |-> <<GNG>>]],
      Nodes |-> <<Node("Run", cs)>>] :
        cs \in SeqsUpTo(RunContrasts, MaxRunContrasts)}

\* any file index, the same well-formed content for every run
InitIndex ==
    /\ sub_imgs \in SUBSET IndexTags
    /\ sub_events \in SUBSET IndexTags
    /\ sub_confounds \in SUBSET IndexTags
    /\ img = GoodImage
    /\ confounds_tsv = Rows(Len(GoodImage.vols))
    /\ specs \in RunSpecs

\* one complete run, any image and any confounds file
InitContent ==
    /\ sub_imgs = {<<1>>}
    /\ sub_events = {<<1>>}
    /\ sub_confounds = {<<1>>}
    /\ img \in Images
    /\ confounds_tsv \in {Rows(n) : n \in 0..MaxVols}
    /\ specs \in {sp \in RunSpecs : Len(sp.Nodes[1].Contrasts) = 1}

\* ways a specification is supplied, and the Input fields it may have
ModelSpecs ==
    {[form |-> f, input_fields |-> fs] :
        f \in {"path", "text", "mapping"},
        fs \in {RequiredFields, RequiredFields \ {"dense"},
                RequiredFields \ {"task"}, {}}}

\* --drop-dummy-TRs: absent, or a number of volumes
DummyTRs == {None} \cup {[given |-> TRUE, n |-> n] : n \in {0, 1, 3}}

\* one complete run and any specification, given to main as the --model
\* string or to the constructor in any form; main also takes the
\* --drop-dummy-TRs option
InitModel ==
    /\ sub_imgs = {<<1>>}
    /\ sub_events = {<<1>>}
    /\ sub_confounds = {<<1>>}
    /\ img = GoodImage
    /\ confounds_tsv = Rows(Len(GoodImage.vols))
    /\ specs \in {sp \in RunSpecs : Len(sp.Nodes[1].Contrasts) = 1}
    /\ model \in ModelSpecs
    /\ pc \in {"main", "match"}
    /\ (pc = "main") => (model.form # "mapping")
    /\ drop_dummy_TRs \in DummyTRs
    /\ (pc # "main") => (drop_dummy_TRs = None)

Init ==
    /\ IdlePair
    /\ \/ /\ pc = "match"
          /\ IdleModel
          /\ IdleArgs
          /\ InitIndex \/ InitContent
       \/ InitModel
    /\ match_runs = <<>>
    /\ events_tsv = RunEvents
    /\ events_df = <<>>
    /\ log = <<>>
    /\ raised = NoError
    /\ IdleContrast
    /\ IdleRun
    /\ IdleOut

Next ==
    \/ MainLoadModel
    \/ FindMatchingRuns
    \/ EnsureModel
    \/ StartProcessing
    \/ NextRun
    \/ GetDesignMatrix
    \/ FitData
    \/ RunGlm
    \/ SaveDesign
    \/ SaveModel
    \/ ResolveContrasts
    \/ PlotContrast
    \/ ComputeContrast
    \/ SaveMaps
    \/ EndRun
    \/ Return
    \/ PlotBetaMaps

Spec == Init /\ [][Next]_vars

-----------------------------------------------------------------------------
(* Specification of two invocations of the pipeline, each for one subject
   with one complete run, their file writes interleaved in any order *)

Procs == {1, 2}

Subjects == {"A01", "B02"}

\* versions of a subject's input data
Datasets == {"x", "y"}

InitPair ==
    /\ IdleArgs
    /\ pc = "pair"
    /\ proc_sub \in [Procs -> Subjects]
    /\ proc_data \in [Procs -> Datasets]
    /\ proc_pos = [p \in Procs |-> 0]
    /\ disk = {}
    /\ specs = [Input |-> [task |-> [type |-> "list", value |-> <<GNG>>]],
                Nodes |-> <<Node("Run", <<CHOOSE c \in RunContrasts :
                                             c.Name = "task">>)>>]
    /\ IdleModel
    /\ log = <<>>
    /\ raised = NoError
    /\ IdleMatch
    /\ IdleContrast
    /\ IdleEvents
    /\ IdleData
    /\ IdleRun
    /\ IdleOut

NextPair == \E p \in Procs : WriteNext(p)

SpecPair == InitPair /\ [][NextPair]_vars

-----------------------------------------------------------------------------
(* C1 *)

\* the run indices of the entries of the matched-run list
MatchedIndices == {IntOf(match_runs[i][2][2]) : i \in 1..Len(match_runs)}

\* C1: for non-empty image and event sets, the matched-run list has exactly
\* one (session, run) entry per run index that occurs in an image name and in
\* an event-file name, and its run indices are strictly ascending numbers.
C1_MatchedRunsAreSortedIntersection ==
    (pc = "matched") =>
        /\ \A n \in 0..99 :
              (n \in MatchedIndices) <=>
                 /\ \E f \in sub_imgs : Len(f) > 0 /\ IntOf(f) = n
                 /\ \E f \in sub_events : Len(f) > 0 /\ IntOf(f) = n
        /\ \A i \in 1..Len(match_runs) :
              /\ match_runs[i][1] = session
              /\ match_runs[i][2][1] = "run"
              /\ match_runs[i][2][2] = RunLabel(IntOf(match_runs[i][2][2]))
        /\ \A i, j \in 1..Len(match_runs) :
              i < j => IntOf(match_runs[i][2][2]) < IntOf(match_runs[j][2][2])

\* C1 witness: runs 1, 2 and 10 matched (text order and numeric order
\* differ), run 1 being named both "1" and "01" among the images.
C1_Witness ==
    /\ pc = "matched"
    /\ match_runs = <<<<session, <<"run", <<1>>>>>>,
                      <<session, <<"run", <<2>>>>>>,
                      <<session, <<"run", <<1, 0>>>>>>>>
    /\ <<1>> \in sub_imgs /\ <<0, 1>> \in sub_imgs

-----------------------------------------------------------------------------
(* C4, C5, C6 *)

\* the contrasts of the Run-level nodes, in specification order
RunContrastInputs ==
    Flatten([n \in 1..Len(specs.Nodes) |->
                IF specs.Nodes[n].Level = "Run"
                THEN specs.Nodes[n].Contrasts ELSE <<>>])

\* the weight matrix W of a contrast: the rows written in the specification
WeightRows(c) == IF c.Weights.ndim = 1 THEN <<c.Weights.data>> ELSE c.Weights.data

\* a contrast the specification says is retained: as many weights per row as
\* conditions, and every condition is a column of the design matrix
Retained(c) ==
    /\ \A r \in 1..Len(WeightRows(c)) :
          Len(WeightRows(c)[r]) = Len(c.ConditionList)
    /\ \A j \in 1..Len(c.ConditionList) :
          \E i \in 1..Len(dm_columns) : dm_columns[i] = c.ConditionList[j]

RetainedInputs == SelectSeq(RunContrastInputs, Retained)

\* the column of the design matrix with the given name
ColumnOf(cols, name) == CHOOSE i \in 1..Len(cols) : cols[i] = name

\* the resolved matrix R is W spread over the design's columns by name
SpreadByName(R, c) ==
    LET C == c.ConditionList
        W == WeightRows(c)
    IN  /\ Len(R) = Len(W)
        /\ \A r \in 1..Len(R) :
              /\ Len(R[r]) = Len(dm_columns)
              /\ \A j \in 1..Len(C) : R[r][ColumnOf(dm_columns, C[j])] = W[r][j]
              /\ \A i \in 1..Len(dm_columns) :
                    (\A j \in 1..Len(C) : C[j] # dm_columns[i]) => R[r][i] = 0

DistinctConditions(c) ==
    \A i, j \in 1..Len(c.ConditionList) :
        i # j => c.ConditionList[i] # c.ConditionList[j]

\* C4 as stated: for every retained contrast (C, W) the resolved matrix has
\* W's rows and one column per design column, holds W[r][j] in the column
\* named C[j] and zero in every other column.
C4_Original_ResolvedWeightsByName ==
    (pc = "resolved") =>
        /\ Len(contrasts) = Len(RetainedInputs)
        /\ \A k \in 1..Len(contrasts) :
              SpreadByName(contrasts[k].weights, RetainedInputs[k])

\* C4 amended: the same, for every retained contrast whose condition list
\* names pairwise distinct conditions (a name listed twice has one column,
\* which cannot hold two weights).
C4_ResolvedWeightsByName ==
    (pc = "resolved") =>
        /\ Len(contrasts) = Len(RetainedInputs)
        /\ \A k \in 1..Len(contrasts) :
              DistinctConditions(RetainedInputs[k]) =>
                  SpreadByName(contrasts[k].weights, RetainedInputs[k])

\* C4 witness: a two-row contrast on (rest, task) resolved against a design
\* whose columns are neither sorted nor in the order of the condition list.
C4_Witness ==
    /\ pc = "resolved"
    /\ dm_columns = <<"task", "constant", "rest">>
    /\ Len(RunContrastInputs) = 1
    /\ RunContrastInputs[1].ConditionList = <<"rest", "task">>
    /\ Len(contrasts) = 1
    /\ contrasts[1].weights = <<<<12, 0, 11>>, <<22, 0, 21>>>>

\* C5: after the design's columns are permuted, the contrasts are the same
\* ones and every named column has the weight it had before.
C5_PermutationKeepsWeightsByName ==
    (pc = "resolved" /\ prev_columns # <<>>) =>
        /\ Len(contrasts) = Len(prev_contrasts)
        /\ \A k \in 1..Len(contrasts) :
              /\ contrasts[k].Name = prev_contrasts[k].Name
              /\ contrasts[k].Test = prev_contrasts[k].Test
              /\ Len(contrasts[k].weights) = Len(prev_contrasts[k].weights)
              /\ \A r \in 1..Len(contrasts[k].weights) :
                    \A i \in 1..Len(dm_columns) :
                        contrasts[k].weights[r][i] =
                            prev_contrasts[k].weights[r]
                                [ColumnOf(prev_columns, dm_columns[i])]

\* C5 witness: the columns really moved and a contrast with two different
\* non-zero weights was resolved against both orders.
C5_Witness ==
    /\ pc = "resolved"
    /\ prev_columns = <<"constant", "rest", "task">>
    /\ dm_columns = <<"task", "rest", "constant">>
    /\ Len(contrasts) = 1
    /\ contrasts[1].weights = <<<<12, 11, 0>>>>
    /\ prev_contrasts[1].weights = <<<<0, 11, 12>>>>

\* C6: contrast resolution never raises, and it returns exactly the
\* contrasts of the Run nodes whose weights have one entry per condition and
\* whose conditions are all columns of the design, in specification order.
C6_SkipsExactlyUnresolvable ==
    /\ pc # "contrasts_raised"
    /\ (pc = "resolved") =>
          /\ Len(contrasts) = Len(RetainedInputs)
          /\ \A k \in 1..Len(contrasts) :
                /\ contrasts[k].Name = RetainedInputs[k].Name
                /\ contrasts[k].Test = RetainedInputs[k].Test

\* C6 witness: a Run node listing a contrast with a weight too many, then
\* one naming the absent condition "rest", then a resolvable one; only the
\* last is returned.
C6_Witness ==
    /\ pc = "resolved"
    /\ "rest" \notin Range(dm_columns)
    /\ Len(RunContrastInputs) = 3
    /\ RunContrastInputs[1].Name = "badLen"
    /\ RunContrastInputs[2].Name = "taskVsRest"
    /\ RunContrastInputs[3].Name = "task"
    /\ Len(contrasts) = 1
    /\ contrasts[1].Name = "task"

-----------------------------------------------------------------------------
(* C9, C10 *)

\* the Run-level nodes of the model specification
RunNodes == SelectSeq(specs.Nodes, LAMBDA node : node.Level = "Run")

\* C9: every event of an nbk-task run leaves event loading with onset
\* t + 8 - drop_duration, every event of a run of another task with onset
\* t - drop_duration, t being its onset in the events file.
C9_OnsetShift ==
    (pc = "events_loaded") =>
        \A i \in 1..Len(events_df) :
            LET t == events_tsv[events_df[i].index].onset
            IN  IF GetSingleValue(specs.Input.task) = NBK
                THEN events_df[i].onset = t + 8 - drop_duration
                ELSE events_df[i].onset = t - drop_duration

\* the rows of the events file whose relabelled trial type contains one of
\* the strings of x as a substring, in file order
RowsContainingAny(x) ==
    SelectSeq([i \in 1..Len(events_tsv) |-> i],
              LAMBDA i : \E k \in 1..Len(x) :
                  Contains(ShiftedEvents(events_tsv, specs)[i].trial_type, x[k]))

\* C10: with a Run-level node, the returned table holds exactly the events
\* whose relabelled trial type contains at least one string of that node's
\* Model.X as a substring, in their original order; with an empty Model.X
\* it holds no event.
C10_FilterByModelX ==
    (pc = "events_loaded" /\ Len(RunNodes) > 0) =>
        [i \in 1..Len(events_df) |-> events_df[i].index]
            = RowsContainingAny(RunNodes[1].Model.X)

-----------------------------------------------------------------------------
(* C7 *)

\* the program is past drop_non_steady_scans of the current run's design
Dropped ==
    /\ img.is_cifti
    /\ \/ pc \in {"fit_data", "glm", "save_design", "save_model", "resolve"}
       \/ pc = "raised" /\ raised.msg = "Incorrect design specification"

\* the program is past the second drop_non_steady_scans, whose image is
\* fitted
Fitted == pc \in {"glm", "save_design", "save_model", "resolve"}

\* k = ceil(drop_duration / TR): the least k with k * TR >= drop_duration
IsCeilOfDrop(k, t_r) ==
    /\ k * t_r[1] >= drop_duration * t_r[2]
    /\ (k - 1) * t_r[1] < drop_duration * t_r[2]

\* the rational time equals i * TR
IsMultipleOfTR(time, i, t_r) == time[1] * t_r[2] = i * t_r[1] * time[2]

\* C7: for an image with at least ceil(drop_duration / TR) volumes,
\* drop_non_steady_scans counts exactly ceil(drop_duration / TR) scans,
\* the image it returns is the input without that many leading volumes, and
\* the frame times have length (volumes - count) with frame_times[i] = i * TR
\* from i = 0.
C7_TruncationCountAndFrameTimes ==
    \A k \in 0..Len(img.vols) :
        (Dropped /\ IsCeilOfDrop(k, img.t_r)) =>
            /\ non_steady_scans = k
            /\ Len(frame_times) = Len(img.vols) - k
            /\ \A i \in 0..(Len(frame_times) - 1) :
                  IsMultipleOfTR(frame_times[i + 1], i, img.t_r)
            /\ Fitted =>
                  /\ Len(new_cifti_img) = Len(img.vols) - k
                  /\ \A i \in 1..Len(new_cifti_img) :
                        new_cifti_img[i] = img.vols[i + k]

\* a TR of 1.5 s that does not divide 4 s: three of five volumes dropped,
\* the second frame time is 1.5 s
C7_Witness ==
    /\ Fitted
    /\ img.t_r = <<3, 2>>
    /\ Len(img.vols) = 5
    /\ non_steady_scans = 3
    /\ new_cifti_img = <<4, 5>>
    /\ frame_times = <<<<0, 2>>, <<3, 2>>>>

-----------------------------------------------------------------------------
(* C8 *)

\* C8: once the image of a run is fitted, the number of leading rows taken
\* off the confounds table, the number of leading volumes taken off the
\* fitted image and the count used for the frame times are the same number,
\* and the design matrix has as many rows as there are frame times and
\* volumes in the fitted image.
C8_SameTruncationEverywhere ==
    Fitted =>
        /\ fit_non_steady_scans = non_steady_scans
        /\ Len(img.vols) - Len(new_cifti_img) = non_steady_scans
        /\ Len(confounds_tsv) - Len(confounds_df) = non_steady_scans
        /\ Len(img.vols) - Len(frame_times) = non_steady_scans
        /\ \A i \in 1..Len(confounds_df) :
              confounds_df[i] = confounds_tsv[i + non_steady_scans]
        /\ Len(dm_index) = Len(frame_times)
        /\ Len(dm_index) = Len(new_cifti_img)

\* a run with TR 2 s: two of four volumes and two of four confounds rows are
\* cut, two rows remain in the design matrix
C8_Witness ==
    /\ pc = "save_design"
    /\ img.t_r = <<2, 1>>
    /\ non_steady_scans = 2
    /\ Len(img.vols) = 4
    /\ Len(new_cifti_img) = 2
    /\ Len(confounds_df) = 2
    /\ Len(dm_index) = 2

-----------------------------------------------------------------------------
(* C2 *)

\* the run labels of the matched runs
MatchedLabels == {SplitDash1(match_runs[i][2]) : i \in 1..Len(match_runs)}

\* the program has stopped
Terminal == pc \in {"raised", "returned", "match_raised"}

\* the errors of the data of one run
PerRunDataErrors ==
    {"Expected 3 files", "Expected CIFTI file",
     "Incorrect design specification", "rows of Y and X differ"}

\* C2: when the program has stopped after a per-run data error in one
\* matched run, every other matched run whose three files exist has had its
\* design and model-fit files written.
C2_OtherRunsStillProcessed ==
    (Terminal /\ raised.msg \in PerRunDataErrors) =>
        \A other \in MatchedLabels \ {run} :
            ~GetDataRaises(other) =>
                DesignFiles(other) \cup ModelFiles(other) \subseteq files

-----------------------------------------------------------------------------
(* C3 *)

\* the files written for a run
FilesOfRun(run_label) == {f \in files : f.run = run_label}

\* the files of the contrasts retained for the run's design matrix
ContrastFiles(run_label, cs) ==
    UNION {{ContrastPlotFile(run_label, cs[i])}
           \cup ContrastMapFiles(run_label, cs[i]) : i \in 1..Len(cs)}

\* C3: after a run has been processed, with or without an error, either all
\* of its output files exist (design table and plot, three model-fit maps,
\* plot and five maps of every retained contrast) or none of them does.
C3_AllOutputsOrNone ==
    (pc \in {"loop", "raised", "returned"} /\ cur > 0) =>
        \/ FilesOfRun(run) = {}
        \/ FilesOfRun(run) =
              DesignFiles(run) \cup ModelFiles(run)
              \cup ContrastFiles(run, RunLevelContrasts(dm_columns,
                                                        specs.Nodes))


-----------------------------------------------------------------------------
(* C11 *)

\* the warning of event loading is in the log
RunNodeWarningLogged ==
    \E i \in 1..Len(log) :
        log[i].msg = "Run node is not identified in model specification"

\* C11: after event loading, the "Run node is not identified" warning has
\* been logged exactly when the model specification has no node of Level
\* "Run", and in that case the returned table is the unfiltered one.
C11_WarningIffNoRunNode ==
    (pc = "events_loaded") =>
        /\ RunNodeWarningLogged <=> (Len(RunNodes) = 0)
        /\ (Len(RunNodes) = 0) =>
              events_df = ShiftedEvents(events_tsv, specs)

-----------------------------------------------------------------------------
(* C12 *)

\* get_data_from_bids has been called for the current run
LookedUp == cur > 0 /\ pc # "design"

\* the lookups of the current run that found a file, out of the three
KindsFound ==
    Cardinality({kind \in {"img", "events", "confounds"} :
        \E f \in (IF kind = "img" THEN sub_imgs
                  ELSE IF kind = "events" THEN sub_events
                  ELSE sub_confounds) : IntOf(f) = IntOf(run)})

\* C12: get_data_from_bids fails for a matched run exactly when one of the
\* three lookups finds no file, and the number in the error is then how many
\* of the three required files were found, a number below 3, whatever the
\* sizes of the lookup results.
C12_MissingFileCount ==
    LookedUp =>
        /\ (raised.msg = "Expected 3 files") <=> (KindsFound < 3)
        /\ (raised.msg = "Expected 3 files") =>
              (raised.found = KindsFound /\ raised.found < 3)

-----------------------------------------------------------------------------
(* C13 *)

\* C13: when the image lookup or the events lookup of the subject/session
\* is empty, run matching ends in an error, the matched-run list stays
\* empty, no run is processed and no output file is written.
C13_EmptyLookupStopsEverything ==
    (sub_imgs = {} \/ sub_events = {}) =>
        /\ pc \in {"match", "match_raised"}
        /\ (pc = "match_raised") => (raised.exc = "ValueError")
        /\ match_runs = <<>>
        /\ cur = 0
        /\ files = {}
        /\ beta_maps = <<>>

\* images exist, no events file: matching has raised
C13_Witness ==
    /\ pc = "match_raised"
    /\ sub_imgs = {<<1>>, <<2>>}
    /\ sub_events = {}
    /\ raised = Error("ValueError", "No task events found", 0)
    /\ files = {}

-----------------------------------------------------------------------------
(* C14 *)

\* run indices that only have events files, and that only have an image
OnlyEvents == RunsOf(sub_events) \ RunsOf(sub_imgs)
OnlyImages == RunsOf(sub_imgs) \ RunsOf(sub_events)

\* a warning with this text names run index n
Warned(text, n) ==
    \E i \in 1..Len(log) : log[i].msg = text /\ n \in log[i].runs

\* what the claim says of a run index n that is in exactly one of the sets
ReportedNotRaised(n) ==
    /\ pc = "matched"
    /\ raised = NoError
    /\ n \notin MatchedIndices
    /\ (n \in OnlyEvents) => Warned("missing functional BOLD file", n)
    /\ (n \in OnlyImages) => Warned("missing task events files", n)

\* C14 as stated: for every run index present in exactly one of the two
\* sets, run matching completes without raising, the index is not in the
\* matched-run list and a warning names the missing side.
C14_Original_PartialMatchWarns ==
    (pc # "match") =>
        \A n \in OnlyEvents \cup OnlyImages : ReportedNotRaised(n)

\* C14: when both lookups returned at least one file, for every run index
\* present in exactly one of the two sets, run matching completes without
\* raising, the index is not in the matched-run list, and a warning names
\* the missing side ("missing functional BOLD file" for an index with
\* events only, "missing task events files" for one with an image only).
C14_PartialMatchWarns ==
    (pc # "match" /\ sub_imgs # {} /\ sub_events # {}) =>
        \A n \in OnlyEvents \cup OnlyImages : ReportedNotRaised(n)

\* run 1 matched, run 2 has an image only, run 10 has events only
C14_Witness ==
    /\ pc = "matched"
    /\ sub_imgs = {<<1>>, <<2>>}
    /\ sub_events = {<<1>>, <<1, 0>>}
    /\ MatchedIndices = {1}
    /\ Warned("missing functional BOLD file", 10)
    /\ Warned("missing task events files", 2)

-----------------------------------------------------------------------------
(* C15 *)

\* C15: a model specification lacking a required Input field, supplied as a
\* file path, as JSON text or as a parsed mapping, gets no further than its
\* rejection: no run is matched, no design matrix is built and no file is
\* written for it.
C15_IncompleteSpecRejectedFirst ==
    (MissingFields(model) # {}) =>
        /\ pc \in {"main", "match", "config_raised"}
        /\ match_runs = <<>>
        /\ cur = 0
        /\ files = {}

-----------------------------------------------------------------------------
(* C16 *)

\* the names, as strings, of the files written for a run
NamesOfRun(run_label) == {Render(f) : f \in FilesOfRun(run_label)}

\* the retained contrasts have pairwise distinct names and a test t or F
DistinctNamesAndTests(cs) ==
    /\ \A i, j \in 1..Len(cs) : (cs[i].Name = cs[j].Name) => (i = j)
    /\ \A i \in 1..Len(cs) : cs[i].Test \in {"t", "F"}

\* the current run has been processed to the end
RunCompleted == pc \in {"loop", "returned"} /\ cur > 0

\* C16: a run that completes with c retained contrasts, their names
\* pairwise distinct and their tests t or F, has written exactly 5 + 6 * c
\* files with distinct names (2 design files, 3 model-fit maps, and per
\* contrast 1 plot and 5 statistic maps), every name being the fixed pattern
\* filled with subject, session, task, run, contrast name and statistic
\* kind; and files of different runs never have the same name.
C16_DistinctOutputNames ==
    /\ (RunCompleted /\ DistinctNamesAndTests(contrasts)) =>
          /\ Cardinality(NamesOfRun(run)) = 5 + 6 * Len(contrasts)
          /\ FilesOfRun(run) =
                DesignFiles(run) \cup ModelFiles(run)
                \cup ContrastFiles(run, contrasts)
    /\ \A f, g \in files : (f.run # g.run) => (Render(f) # Render(g))
    /\ \A f, g \in files : (Render(f) = Render(g)) => (f = g)

\* two runs completed with two retained contrasts each: 34 names
C16_Witness ==
    /\ pc = "returned"
    /\ Len(match_runs) = 2
    /\ Len(contrasts) = 2
    /\ DistinctNamesAndTests(contrasts)
    /\ Cardinality({Render(f) : f \in files}) = 34
    /\ "sub-A01_ses-01_task-gng_run-2_contrast-task_stat-t_statmap.dscalar.nii"
          \in NamesOfRun(<<2>>)

-----------------------------------------------------------------------------
(* C17 *)

\* the paths invocation p has written so far
PathsWritten(p) ==
    {OutputPath(proc_sub[p], PairWrites[i]) : i \in 1..proc_pos[p]}

\* the disk after invocation p alone has run to its end, starting from d
RECURSIVE AfterWrites(_, _, _)
AfterWrites(d, p, i) ==
    IF i > Len(PairWrites) THEN d
    ELSE AfterWrites(WriteFile(d, OutputPath(proc_sub[p], PairWrites[i]),
                               Content(p, proc_sub[p], proc_data[p],
                                       PairWrites[i])),
                     p, i + 1)

\* both invocations have written all their files
BothDone == \A p \in Procs : proc_pos[p] = Len(PairWrites)

\* C17: two invocations for different subjects, interleaved in any order,
\* never write the same path, every path an invocation writes lies under
\* its own glm/sub-<ID> directory, and when both are done the disk is what
\* running one invocation after the other leaves.
C17_DisjointSubjectsDoNotInterfere ==
    (pc = "pair" /\ proc_sub[1] # proc_sub[2]) =>
        /\ PathsWritten(1) \cap PathsWritten(2) = {}
        /\ \A p \in Procs : \A path \in PathsWritten(p) :
              SubSeq(path, 1, 11) = "glm/sub-" \o proc_sub[p]
        /\ {e.path : e \in disk} = PathsWritten(1) \cup PathsWritten(2)
        /\ BothDone => (disk = AfterWrites(AfterWrites({}, 1, 1), 2, 1))

\* both invocations done for two subjects: 22 files, half under each
\* subject's directory
C17_Witness ==
    /\ pc = "pair"
    /\ proc_sub = <<"A01", "B02">>
    /\ BothDone
    /\ Cardinality(disk) = 22
    /\ Cardinality(PathsWritten(2)) = 11
    /\ "glm/sub-B02/sub-B02_ses-01_task-gng_run-1_design.tsv"
          \in PathsWritten(2)

-----------------------------------------------------------------------------
(* C19 *)

\* the two invocations are passes of the pipeline over identical inputs
IdenticalInputs ==
    pc = "pair" /\ proc_sub[1] = proc_sub[2] /\ proc_data[1] = proc_data[2]

-----------------------------------------------------------------------------
(* C18 *)

\* C18: once the image of a run has been truncated for the fit, the number
\* of leading volumes discarded is N when --drop-dummy-TRs N was given, and
\* ceil(drop_duration / TR) when the option is absent.
C18_DummyTROverride ==
    Fitted =>
        IF drop_dummy_TRs.given
        THEN /\ non_steady_scans = drop_dummy_TRs.n
             /\ Len(img.vols) - Len(new_cifti_img) = drop_dummy_TRs.n
        ELSE /\ IsCeilOfDrop(non_steady_scans, img.t_r)
             /\ Len(img.vols) - Len(new_cifti_img) = non_steady_scans

-----------------------------------------------------------------------------
(* C20 *)

\* the same task written the other way: a string for a one-element list, a
\* one-element list for a string
OtherRepresentation(task) ==
    IF task.type = "list" THEN [type |-> "str", value |-> task.value[1]]
    ELSE [type |-> "list", value |-> <<task.value>>]

\* the table with the n-back hook applied to every row, and without it
HookedTable ==
    FilterByNodes([i \in 1..Len(events_tsv) |->
                      ReduceAndShift(NbkHook(events_tsv[i]))], specs.Nodes)

UnhookedTable ==
    FilterByNodes([i \in 1..Len(events_tsv) |-> ReduceAndShift(events_tsv[i])],
                  specs.Nodes)

\* C20: the n-back hook is applied to the events of a run exactly when the
\* task of the model is "nbk", and the returned table is the same whether
\* Input.task is written as a string or as a one-element list.
C20_HookForBothRepresentations ==
    (pc = "events_loaded") =>
        /\ events_df = IF GetSingleValue(specs.Input.task) = NBK
                       THEN HookedTable ELSE UnhookedTable
        /\ events_df =
              LoadRunLevelEventsDf(events_tsv,
                  [specs EXCEPT !.Input.task = OtherRepresentation(@)])

-----------------------------------------------------------------------------
(* C21 *)

\* the effect-size maps written for the runs processed so far
EffectSizeFiles ==
    {f \in files : f.stat = "effect_size" /\ f.suffix = "_statmap.dscalar.nii"}

\* C21: the list process_and_fit_valid_run returns holds the effect-size map
\* name of every retained contrast of every matched run it processed (one
\* entry each when the contrast names are pairwise distinct), and the
\* caller then writes a plot for each of them.
C21_ReturnsMapsOfEveryRun ==
    /\ (pc \in {"returned", "done"}) =>
          /\ Range(beta_maps) = EffectSizeFiles
          /\ (\A i, j \in 1..Len(RunContrastInputs) :
                 (RunContrastInputs[i].Name = RunContrastInputs[j].Name)
                    => (i = j))
             => (Len(beta_maps) = Cardinality(EffectSizeFiles))
    /\ (pc = "done") =>
          \A f \in EffectSizeFiles : PngName(f) \in files

-----------------------------------------------------------------------------
(* C22 *)

\* images and events both exist but share no run index
NoSharedRun ==
    /\ sub_imgs # {}
    /\ sub_events # {}
    /\ RunsOf(sub_imgs) \cap RunsOf(sub_events) = {}

\* C22: when images and events exist but share no run index, the program
\* never ends in an error: once process_and_fit_valid_run has been left it
\* has returned an empty list and written no file, and the caller has then
\* logged "No beta maps found".
C22_EmptyMatchReturnsEmpty ==
    NoSharedRun =>
        /\ pc # "raised"
        /\ raised = NoError
        /\ files = {}
        /\ beta_maps = <<>>
        /\ (pc = "done") =>
              \E i \in 1..Len(log) : log[i].msg = "No beta maps found"

-----------------------------------------------------------------------------
(* C23 *)

\* C23: once the events of a run are loaded and its image truncated, the
\* amount taken off the onset of every event (of a task without the n-back
\* shift) is the acquisition time of the discarded volumes, truncation
\* count * TR, so the event keeps its position relative to the first
\* retained volume.
C23_OnsetsFollowTruncation ==
    (Dropped /\ ~TaskIsNbk(specs.Input.task)) =>
        \A i \in 1..Len(events_df) :
            (events_tsv[events_df[i].index].onset - events_df[i].onset)
                * img.t_r[2]
            = non_steady_scans * img.t_r[1]

=============================================================================
